---- MODULE Spec2Model ----
(***************************************************************************)
(* The email-verification / account-finalization backend of                *)
(* oneprojectapp-backend (session-code variant, src/unnamed/part_000).     *)
(*                                                                         *)
(* The datastore tables are the state.  Every request handler is an async  *)
(* function: between two awaited datastore statements any statement of     *)
(* another in-flight request may run, so a handler is modelled as one      *)
(* action per awaited datastore statement (the synchronous code before     *)
(* and after a statement belongs to that statement's action).  Every       *)
(* awaited call (pool.query, transporter.sendMail) may throw; the action   *)
(* then takes the handler's catch branch.                                  *)
(***************************************************************************)
EXTENDS Integers, Sequences, FiniteSets, TLC

VARIABLES
    email_tokens,   \* table email_tokens, in insertion order
    clients,        \* table clients (company_email is unique)
    projects,       \* table projects ((name, client_id) is unique)
    users,          \* table users, in insertion order
    team_members,   \* table team_members (never written by part_000)
    now,            \* the datastore clock NOW(), in minutes
    nextSession,    \* the next value uuidv4() returns (never repeats)
    req,            \* per request slot: the handler in flight and its locals
    resp,           \* per request slot: the last response sent
    freshCount,     \* history: per token id, the {verified:true} answers for it (2: two or more)
    confirmed,      \* history: emails for which a /verify-code commit ran
    outbox          \* history: the mails sendMail delivered, as [to, code]

db == <<email_tokens, clients, projects, users, team_members>>
vars == <<email_tokens, clients, projects, users, team_members, now, nextSession,
          req, resp, freshCount, confirmed, outbox>>

----------------------------------------------------------------------------
(* Bounds of the model *)

MaxTime == 3
MaxTokens == 2
MaxResent == 4
MaxUsers == 2

(* interval '3 minutes' *)
TTL == 3

(* SQL NULL / JavaScript undefined, for numbers, strings and emails *)
Null == 0 - 1
NoPassword == ""
NullEmail == <<"NULL">>

(* Strings are sequences of characters where the code looks inside them. *)
EmailA == <<"a", "@", "b", ".", "c">>
EmailD == <<"d", "@", "e", ".", "f">>
EmailNoDot == <<"a", "@", "b">>
EmailNoAt == <<"a", ".", "b">>
EmailEmpty == <<>>

Accounts == {EmailA, EmailD}
Emails == {EmailA, EmailD, EmailNoDot, EmailNoAt, EmailEmpty}

(* Math.floor(100000 + Math.random() * 900000).toString() draws one of     *)
(* 900000 strings; two of them stand for the range.                        *)
Codes == {"123456", "654321"}

Passwords == {"pw1", "pw2"}

Procs == {1, 2}

----------------------------------------------------------------------------
(* Responses: HTTP status and the JSON body's discriminating fields. *)

Resp(status, body, sessionId) ==
    [status |-> status, body |-> body, sessionId |-> sessionId]

NoResp == Resp(0, "none", Null)

(* res.json({ verified: true }), res.json({ verified: false }) *)
VerifiedTrue == Resp(200, "verified:true", Null)
VerifiedFalse == Resp(200, "verified:false", Null)

(* res.status(400).json({ error: "Invalid email address." }) *)
InvalidEmail == Resp(400, "Invalid email address.", Null)

(* res.json({ success: true, message: 'Verification code sent.', sessionId }) *)
CodeSent(sessionId) == Resp(200, "Verification code sent.", sessionId)

(* res.status(500).json({ error: 'Failed to send verification.' }) *)
SendFailed == Resp(500, "Failed to send verification.", Null)

(* res.json({ success: false, redirect: ".../verify-failed.html" }) *)
ResendRefused == Resp(200, "success:false,redirect", Null)

(* res.json({ success: true, message: "Verification code resent.", sessionId }) *)
CodeResent(sessionId) == Resp(200, "Verification code resent.", sessionId)

(* res.status(500).json({ error: "Failed to resend verification." }) *)
ResendFailed == Resp(500, "Failed to resend verification.", Null)

(* res.json({ success: true, message: "Account finalized successfully." }) *)
Finalized == Resp(200, "Account finalized successfully.", Null)

(* res.status(500).json({ success: false, error: "Server error finalizing account." }) *)
FinalizeFailed == Resp(500, "Server error finalizing account.", Null)

(* The /verify-login answers. *)
InvalidRole == Resp(400, "Invalid role.", Null)
LoginError == Resp(500, "Server error.", Null)
UserNotFound == Resp(200, "User not found.", Null)
FirstLogin == Resp(200, "success:false,firstLogin:true", Null)
IncorrectPassword == Resp(200, "Incorrect password.", Null)
LoginSuccess == Resp(200, "success:true", Null)

(* The /reset-password answers. *)
InvalidCode == Resp(200, "Invalid or expired code.", Null)
PasswordReset == Resp(200, "Password reset successfully.", Null)
ResetFailed == Resp(500, "Failed to reset password.", Null)

(* res.status(200).send("OK"), and the error middleware's 500 *)
EventsOk == Resp(200, "OK", Null)
InternalError == Resp(500, "Internal server error", Null)

Idle == [op |-> "idle", pc |-> "idle"]

Includes(s, ch) == \E i \in 1..Len(s) : s[i] = ch

(* !company_email || !company_email.includes("@") || !company_email.includes(".") *)
IsInvalidEmail(company_email) ==
    \/ company_email = <<>>
    \/ ~Includes(company_email, "@")
    \/ ~Includes(company_email, ".")

TokenRows == {email_tokens[i] : i \in 1..Len(email_tokens)}

UserRows == {users[i] : i \in 1..Len(users)}

(* email_tokens.id, a serial: freshCount has one entry per id ever issued. *)
NextTokenId == Len(freshCount) + 1

----------------------------------------------------------------------------
Init ==
    /\ email_tokens = <<>>
    /\ clients = {}
    /\ projects = {}
    /\ users = <<>>
    /\ team_members = {}
    /\ now = 0
    /\ nextSession = 1
    /\ req = [p \in Procs |-> Idle]
    /\ resp = [p \in Procs |-> NoResp]
    /\ freshCount = <<>>
    /\ confirmed = {}
    /\ outbox = {}

(* Time passes. *)
Tick ==
    /\ now < MaxTime
    /\ now' = now + 1
    /\ UNCHANGED <<db, nextSession, req, resp, freshCount, confirmed, outbox>>

----------------------------------------------------------------------------
(* POST /create-client *)

(* The expiry without the interval. *)
ExpiresAtNow == now

(* NOW() + interval '3 minutes' *)
ExpiresAt == now + TTL

(* transporter.sendMail({ to, html: ...code... }) that returned *)
SendMail(to, code) == outbox \cup {[to |-> to, code |-> code]}

(* INSERT INTO email_tokens (...) VALUES (..., NOW() + interval '3 minutes', ...) *)
InsertToken(email, token, attempts, session_id, pending_password) ==
    Append(email_tokens,
           [id |-> NextTokenId, email |-> email, token |-> token,
            expires_at |-> ExpiresAt, attempts |-> attempts,
            session_id |-> session_id, verified |-> FALSE,
            pending_password |-> pending_password])

(* Requests in flight that will still insert a token row. *)
PendingInserts == Cardinality({p \in Procs : req[p].op = "resend-verification"})

(* The model issues at most MaxTokens token rows in all (a deleted row's   *)
(* id and session id are not issued again).                                *)
RoomForToken == Len(freshCount) + PendingInserts < MaxTokens

(* A resend goes on to its insert while fewer than MaxResent token rows    *)
(* have been issued; a specification that follows one request at a time    *)
(* holds resends to RoomForToken as well (OneAtATime).                     *)
RoomForResend == Len(freshCount) + PendingInserts < MaxResent

(* The handler has one datastore statement, so it is one action: 400 for   *)
(* a rejected email; otherwise the INSERT, then sendMail, each of which    *)
(* may throw into the catch (500).  `code` is the value Math.random()      *)
(* gives; insertOk and mailOk say whether the awaited call returns.        *)
CreateClient(p, company_email, code, insertOk, mailOk) ==
    /\ req[p] = Idle
    /\ UNCHANGED <<clients, projects, users, team_members, now, req, confirmed>>
    /\ IF IsInvalidEmail(company_email)
       THEN /\ resp' = [resp EXCEPT ![p] = InvalidEmail]
            /\ UNCHANGED <<email_tokens, nextSession, freshCount, outbox>>
       ELSE /\ RoomForToken
            /\ IF insertOk
               THEN /\ email_tokens' = InsertToken(company_email, code, 0, nextSession, NoPassword)
                    /\ freshCount' = Append(freshCount, 0)
                    /\ nextSession' = nextSession + 1
                    /\ outbox' = IF mailOk THEN SendMail(company_email, code) ELSE outbox
                    /\ resp' = [resp EXCEPT ![p] =
                                  IF mailOk THEN CodeSent(nextSession) ELSE SendFailed]
               ELSE /\ resp' = [resp EXCEPT ![p] = SendFailed]
                    /\ UNCHANGED <<email_tokens, nextSession, freshCount, outbox>>

----------------------------------------------------------------------------
(* POST /verify-code *)

(* The SELECT without its verified=false condition. *)
MatchingTokensAnyState(email, sessionId, code) ==
    {t \in TokenRows : /\ t.email = email
                       /\ t.session_id = sessionId
                       /\ t.token = code
                       /\ t.expires_at > now}

(* The SELECT without its expires_at > NOW() condition. *)
MatchingTokensAnyAge(email, sessionId, code) ==
    {t \in TokenRows : /\ t.email = email
                       /\ t.session_id = sessionId
                       /\ t.token = code
                       /\ t.verified = FALSE}

(* The SELECT with a condition on attempts added: resent codes are refused. *)
MatchingTokensNeverResent(email, sessionId, code) ==
    {t \in TokenRows : /\ t.email = email
                       /\ t.session_id = sessionId
                       /\ t.token = code
                       /\ t.expires_at > now
                       /\ t.verified = FALSE
                       /\ t.attempts = 0}

(* SELECT * FROM email_tokens WHERE email=$1 AND session_id=$2 AND token=$3 *)
(*   AND expires_at > NOW() AND verified=false                              *)
MatchingTokens(email, sessionId, code) ==
    {t \in TokenRows : /\ t.email = email
                       /\ t.session_id = sessionId
                       /\ t.token = code
                       /\ t.expires_at > now
                       /\ t.verified = FALSE}

(* UPDATE clients SET verified=$v WHERE company_email=$1 *)
SetClientVerified(email, v) ==
    {IF c.company_email = email THEN [c EXCEPT !.verified = v] ELSE c : c \in clients}

(* UPDATE email_tokens SET verified=true WHERE email=$1 AND session_id=$2 *)
MarkTokensVerified(email, sessionId) ==
    [i \in 1..Len(email_tokens) |->
        IF email_tokens[i].email = email /\ email_tokens[i].session_id = sessionId
        THEN [email_tokens[i] EXCEPT !.verified = TRUE]
        ELSE email_tokens[i]]

(* The SELECT and the branch on result.rows.length. *)
VerifyCodeSelect(p, email, sessionId, code, ok) ==
    /\ req[p] = Idle
    /\ UNCHANGED <<db, now, nextSession, freshCount, confirmed, outbox>>
    /\ IF ok /\ MatchingTokens(email, sessionId, code) # {}
       THEN /\ req' = [req EXCEPT ![p] =
                         [op |-> "verify-code", pc |-> "update_clients",
                          email |-> email, sessionId |-> sessionId, code |-> code,
                          rows |-> {t.id : t \in MatchingTokens(email, sessionId, code)}]]
            /\ resp' = [resp EXCEPT ![p] = NoResp]
       ELSE /\ resp' = [resp EXCEPT ![p] = VerifiedFalse]
            /\ UNCHANGED req

(* UPDATE clients SET verified=true: the first statement of the commit. *)
VerifyCodeUpdateClients(p, ok) ==
    /\ req[p].op = "verify-code"
    /\ req[p].pc = "update_clients"
    /\ UNCHANGED <<email_tokens, projects, users, team_members, now, nextSession,
                   freshCount, outbox>>
    /\ IF ok
       THEN /\ clients' = SetClientVerified(req[p].email, TRUE)
            /\ confirmed' = confirmed \cup {req[p].email}
            /\ req' = [req EXCEPT ![p].pc = "update_tokens"]
            /\ UNCHANGED resp
       ELSE /\ resp' = [resp EXCEPT ![p] = VerifiedFalse]
            /\ req' = [req EXCEPT ![p] = Idle]
            /\ UNCHANGED <<clients, confirmed>>

(* UPDATE email_tokens SET verified=true, then res.json({verified:true}). *)
VerifyCodeUpdateTokens(p, ok) ==
    /\ req[p].op = "verify-code"
    /\ req[p].pc = "update_tokens"
    /\ UNCHANGED <<clients, projects, users, team_members, now, nextSession, confirmed, outbox>>
    /\ req' = [req EXCEPT ![p] = Idle]
    /\ IF ok
       THEN /\ email_tokens' = MarkTokensVerified(req[p].email, req[p].sessionId)
            /\ freshCount' = [i \in 1..Len(freshCount) |->
                                 IF i \in req[p].rows /\ freshCount[i] < 2
                                 THEN freshCount[i] + 1
                                 ELSE freshCount[i]]
            /\ resp' = [resp EXCEPT ![p] = VerifiedTrue]
       ELSE /\ resp' = [resp EXCEPT ![p] = VerifiedFalse]
            /\ UNCHANGED <<email_tokens, freshCount>>

----------------------------------------------------------------------------
(* POST /resend-verification *)

(* SELECT attempts, session_id FROM email_tokens WHERE email=$1            *)
(*   ORDER BY expires_at DESC LIMIT 1: a row with the greatest expires_at  *)
(* (which one, among equals, the datastore decides).                       *)
LatestTokens(email) ==
    {t \in TokenRows : /\ t.email = email
                       /\ \A u \in TokenRows : u.email = email => u.expires_at <= t.expires_at}

(* JavaScript arithmetic on a NULL attempts column: null >= 2 is false,    *)
(* null + 1 is 1.                                                          *)
JsNumber(x) == IF x = Null THEN 0 ELSE x

(* check.rows.length > 0 && check.rows[0].attempts >= 2 *)
AttemptsExhausted(row) == JsNumber(row.attempts) >= 2

(* The attempts of the row read, not incremented. *)
NewAttemptsSame(row) == JsNumber(row.attempts)

(* check.rows[0].attempts + 1 *)
NewAttempts(row) == JsNumber(row.attempts) + 1

(* The SELECT and the decision taken on its first row. *)
ResendSelect(p, email, ok) ==
    /\ req[p] = Idle
    /\ UNCHANGED <<db, now, nextSession, freshCount, confirmed, outbox>>
    /\ IF ~ok
         THEN /\ resp' = [resp EXCEPT ![p] = ResendFailed]
              /\ UNCHANGED req
         ELSE IF LatestTokens(email) = {}
         THEN /\ RoomForResend
              /\ req' = [req EXCEPT ![p] =
                           [op |-> "resend-verification", pc |-> "insert", email |-> email,
                            read |-> Null, newAttempts |-> 1, sessionId |-> Null]]
              /\ resp' = [resp EXCEPT ![p] = NoResp]
         ELSE \E row \in LatestTokens(email) :
                IF AttemptsExhausted(row)
                THEN /\ resp' = [resp EXCEPT ![p] = ResendRefused]
                     /\ UNCHANGED req
                ELSE /\ RoomForResend
                     /\ req' = [req EXCEPT ![p] =
                                  [op |-> "resend-verification", pc |-> "insert",
                                   email |-> email, read |-> row.id,
                                   newAttempts |-> NewAttempts(row),
                                   sessionId |-> row.session_id]]
                     /\ resp' = [resp EXCEPT ![p] = NoResp]

(* The INSERT of the new token, then sendMail and the response.  A request *)
(* that read no row calls uuidv4() for its session id.                     *)
ResendInsert(p, code, insertOk, mailOk) ==
    /\ req[p].op = "resend-verification"
    /\ req[p].pc = "insert"
    /\ UNCHANGED <<clients, projects, users, team_members, now, confirmed>>
    /\ req' = [req EXCEPT ![p] = Idle]
    /\ LET sessionId == IF req[p].sessionId = Null THEN nextSession ELSE req[p].sessionId
         IN  IF insertOk
             THEN /\ email_tokens' = InsertToken(req[p].email, code, req[p].newAttempts,
                                                 sessionId, NoPassword)
                  /\ freshCount' = Append(freshCount, 0)
                  /\ nextSession' = IF req[p].sessionId = Null THEN nextSession + 1
                                                               ELSE nextSession
                  /\ outbox' = IF mailOk THEN SendMail(req[p].email, code) ELSE outbox
                  /\ resp' = [resp EXCEPT ![p] =
                                IF mailOk THEN CodeResent(sessionId) ELSE ResendFailed]
             ELSE /\ resp' = [resp EXCEPT ![p] = ResendFailed]
                  /\ UNCHANGED <<email_tokens, nextSession, freshCount, outbox>>

----------------------------------------------------------------------------
(* POST /send-verification: the INSERT names no attempts column, so the    *)
(* row's attempts is NULL.                                                 *)
SendVerification(p, email, role, password, code, insertOk, mailOk) ==
    /\ req[p] = Idle
    /\ RoomForToken
    /\ UNCHANGED <<clients, projects, users, team_members, now, req, confirmed>>
    /\ IF insertOk
         THEN /\ email_tokens' = InsertToken(email, code, Null, nextSession, password)
              /\ freshCount' = Append(freshCount, 0)
              /\ nextSession' = nextSession + 1
              /\ outbox' = IF mailOk THEN SendMail(email, code) ELSE outbox
              /\ resp' = [resp EXCEPT ![p] =
                            IF mailOk THEN CodeSent(nextSession) ELSE SendFailed]
         ELSE /\ resp' = [resp EXCEPT ![p] = SendFailed]
              /\ UNCHANGED <<email_tokens, nextSession, freshCount, outbox>>

----------------------------------------------------------------------------
(* POST /finalize-account.  A request body is                              *)
(*   [client |-> [company_email, company_name, password_hash],             *)
(*    project |-> [name], contractor |-> email, consultant |-> email,      *)
(*    team_members |-> sequence of emails]                                 *)
(* where a member is given by its email, NullEmail for a member without    *)
(* one (or, for contractor and consultant, for no member at all).  The     *)
(* other client and member columns are written like company_name and are   *)
(* never read back.                                                        *)

(* INSERT INTO clients (...) VALUES (..., true, NOW())                     *)
(*   ON CONFLICT (company_email) DO UPDATE SET verified = true             *)
UpsertClient(client) ==
    IF \E c \in clients : c.company_email = client.company_email
    THEN SetClientVerified(client.company_email, TRUE)
    ELSE clients \cup {[id |-> Cardinality(clients) + 1,
                        company_email |-> client.company_email,
                        company_name |-> client.company_name,
                        password_hash |-> client.password_hash,
                        verified |-> TRUE]}

(* RETURNING id, read after the upsert: clientResult.rows[0].id *)
ClientId(table, company_email) ==
    (CHOOSE c \in table : c.company_email = company_email).id

(* INSERT INTO projects (...) ON CONFLICT (name, client_id) DO NOTHING *)
ProjectConflict(name, client_id) ==
    \E pr \in projects : pr.name = name /\ pr.client_id = client_id

(* projectResult.rows[0]?.id: the new row's id, undefined when the insert  *)
(* did nothing and returned no row.                                        *)
ReturnedProjectId(name, client_id) ==
    IF ProjectConflict(name, client_id) THEN Null ELSE Cardinality(projects) + 1

(* if (contractor?.email), if (consultant?.email), and the loop over       *)
(* team_members, which tests no email: the inserts still to run, in order. *)
HasEmail(email) == email # NullEmail /\ email # <<>>

MemberInserts(body) ==
    (IF HasEmail(body.contractor)
        THEN <<[role |-> "Contractor", email |-> body.contractor]>> ELSE <<>>)
    \o (IF HasEmail(body.consultant)
        THEN <<[role |-> "Consultant", email |-> body.consultant]>> ELSE <<>>)
    \o [i \in 1..Len(body.team_members) |->
          [role |-> "Team Member", email |-> body.team_members[i]]]

(* INSERT INTO users (...) ON CONFLICT (email, project_id) DO NOTHING: a   *)
(* unique index never matches a NULL, so a row with a NULL email or a NULL *)
(* project_id conflicts with nothing.                                      *)
UserConflict(email, project_id) ==
    /\ email # NullEmail
    /\ project_id # Null
    /\ \E u \in UserRows : u.email = email /\ u.project_id = project_id

InsertUser(m, project_id) ==
    IF UserConflict(m.email, project_id)
    THEN users
    ELSE Append(users, [role |-> m.role, email |-> m.email, project_id |-> project_id,
                        password_hash |-> NoPassword])

(* users rows the requests in flight may still insert. *)
PendingUsers(q) ==
    IF req[q].op = "finalize-account"
    THEN (IF req[q].pc = "project" THEN Len(MemberInserts(req[q].body)) ELSE Len(req[q].todo))
    ELSE 0

RoomForUsers(p, body) ==
    Len(users) + Len(MemberInserts(body)) +
        (IF \E q \in Procs \ {p} : PendingUsers(q) > 0
         THEN PendingUsers(CHOOSE q \in Procs \ {p} : PendingUsers(q) > 0) ELSE 0)
    <= MaxUsers

(* The client upsert; a throw goes to the catch: 500. *)
FinalizeClient(p, body, ok) ==
    /\ req[p] = Idle
    /\ RoomForUsers(p, body)
    /\ UNCHANGED <<email_tokens, projects, users, team_members, now, nextSession,
                   freshCount, confirmed, outbox>>
    /\ IF ok
         THEN /\ clients' = UpsertClient(body.client)
              /\ req' = [req EXCEPT ![p] =
                           [op |-> "finalize-account", pc |-> "project", body |-> body,
                            client_id |-> ClientId(UpsertClient(body.client),
                                                   body.client.company_email)]]
              /\ resp' = [resp EXCEPT ![p] = NoResp]
         ELSE /\ resp' = [resp EXCEPT ![p] = FinalizeFailed]
              /\ UNCHANGED <<clients, req>>

(* res.json({success:true}) once no insert is left. *)
FinalizeContinue(p, project_id, todo) ==
    IF todo = <<>>
    THEN /\ req' = [req EXCEPT ![p] = Idle]
         /\ resp' = [resp EXCEPT ![p] = Finalized]
    ELSE /\ req' = [req EXCEPT ![p] =
                      [op |-> "finalize-account", pc |-> "members", body |-> req[p].body,
                       client_id |-> req[p].client_id, project_id |-> project_id,
                       todo |-> todo]]
         /\ UNCHANGED resp

FinalizeFail(p) ==
    /\ req' = [req EXCEPT ![p] = Idle]
    /\ resp' = [resp EXCEPT ![p] = FinalizeFailed]

(* The project insert. *)
FinalizeProject(p, ok) ==
    /\ req[p].op = "finalize-account"
    /\ req[p].pc = "project"
    /\ UNCHANGED <<email_tokens, clients, users, team_members, now, nextSession,
                   freshCount, confirmed, outbox>>
    /\ LET name == req[p].body.project.name
             project_id == ReturnedProjectId(name, req[p].client_id)
         IN  IF ok
             THEN /\ projects' = IF ProjectConflict(name, req[p].client_id)
                                 THEN projects
                                 ELSE projects \cup {[id |-> project_id, name |-> name,
                                                      client_id |-> req[p].client_id]}
                  /\ FinalizeContinue(p, project_id, MemberInserts(req[p].body))
             ELSE /\ FinalizeFail(p)
                  /\ UNCHANGED projects

(* One member insert: contractor, consultant, then each team member.  The  *)
(* insert runs with whatever project_id the project insert returned, NULL  *)
(* included; ~ok is the insert throwing, be it a fault or the table        *)
(* rejecting the row.                                                      *)
FinalizeMember(p, ok) ==
    /\ req[p].op = "finalize-account"
    /\ req[p].pc = "members"
    /\ UNCHANGED <<email_tokens, clients, projects, team_members, now, nextSession,
                   freshCount, confirmed, outbox>>
    /\ IF ok
         THEN /\ users' = InsertUser(Head(req[p].todo), req[p].project_id)
              /\ FinalizeContinue(p, req[p].project_id, Tail(req[p].todo))
         ELSE /\ FinalizeFail(p)
              /\ UNCHANGED users

----------------------------------------------------------------------------
(* POST /verify-login: one SELECT, so one action. *)

Roles == {"client", "consultant", "contractor", "consultant_pm", "contractor_pm",
          "team_member", "admin"}

(* The switch without its default branch: any other role reads team_members. *)
LoginTableNoDefault(role) ==
    CASE role = "client" -> "clients"
      [] role \in {"consultant", "contractor"} -> "users"
      [] OTHER -> "team_members"

(* switch (role): the table read, "" for the default branch. *)
LoginTable(role) ==
    CASE role = "client" -> "clients"
      [] role \in {"consultant", "contractor"} -> "users"
      [] role \in {"consultant_pm", "contractor_pm", "team_member"} -> "team_members"
      [] OTHER -> ""

(* SELECT * FROM ${table} WHERE ${emailField}=$1, as {password_hash} rows *)
LoginRows(table, email) ==
    CASE table = "clients" ->
           {c.password_hash : c \in {c \in clients : c.company_email = email}}
      [] table = "users" ->
           {u.password_hash : u \in {u \in UserRows : u.email = email}}
      [] OTHER ->
           {t.password_hash : t \in {t \in team_members : t.email = email}}

(* The response for rows[0] = a row with this password_hash. *)
LoginResult(password_hash, password) ==
    IF password_hash = NoPassword THEN FirstLogin
    ELSE IF password_hash # password THEN IncorrectPassword
    ELSE LoginSuccess

VerifyLogin(p, role, email, password, ok) ==
    /\ req[p] = Idle
    /\ UNCHANGED <<db, now, nextSession, req, freshCount, confirmed, outbox>>
    /\ IF LoginTable(role) = ""
       THEN resp' = [resp EXCEPT ![p] = InvalidRole]
       ELSE IF ~ok
              THEN resp' = [resp EXCEPT ![p] = LoginError]
              ELSE IF LoginRows(LoginTable(role), email) = {}
              THEN resp' = [resp EXCEPT ![p] = UserNotFound]
              ELSE \E h \in LoginRows(LoginTable(role), email) :
                     resp' = [resp EXCEPT ![p] = LoginResult(h, password)]

----------------------------------------------------------------------------
(* POST /sendgrid-events.  A batch is a sequence of [event, email]        *)
(* entries; NullEvent is an entry that is null, whose e.event throws.      *)
(* The handler has no try/catch: a throw rejects the async handler, which  *)
(* either leaves the request unanswered or reaches the error middleware    *)
(* (500), depending on the router.                                         *)

NullEvent == [event |-> "null", email |-> NullEmail]

(* e.event === "bounce" || e.event === "dropped" || e.event === "blocked" *)
IsHardFailure(e) == e.event \in {"bounce", "dropped", "blocked"}

(* The loop runs on, without a datastore call, over every other entry. *)
RECURSIVE SkipEvents(_)
SkipEvents(events) ==
    IF events = <<>> THEN <<>>
    ELSE IF IsHardFailure(Head(events)) \/ Head(events) = NullEvent THEN events
    ELSE SkipEvents(Tail(events))

SendgridThrow(p) ==
    /\ req' = [req EXCEPT ![p] = Idle]
    /\ \E r \in {NoResp, InternalError} : resp' = [resp EXCEPT ![p] = r]

(* The loop from `events` on, up to its next awaited UPDATE. *)
SendgridRun(p, events) ==
    LET rest == SkipEvents(events)
    IN  IF rest = <<>>
        THEN /\ req' = [req EXCEPT ![p] = Idle]
             /\ resp' = [resp EXCEPT ![p] = EventsOk]
        ELSE IF Head(rest) = NullEvent
        THEN SendgridThrow(p)
        ELSE /\ req' = [req EXCEPT ![p] =
                          [op |-> "sendgrid-events", pc |-> "update", events |-> rest]]
             /\ resp' = [resp EXCEPT ![p] = NoResp]

SendgridEvents(p, events) ==
    /\ req[p] = Idle
    /\ SendgridRun(p, events)
    /\ UNCHANGED <<db, now, nextSession, freshCount, confirmed, outbox>>

(* UPDATE clients SET verified=false WHERE company_email=$1 *)
SendgridUpdate(p, ok) ==
    /\ req[p].op = "sendgrid-events"
    /\ UNCHANGED <<email_tokens, projects, users, team_members, now, nextSession,
                   freshCount, confirmed, outbox>>
    /\ IF ok
         THEN /\ clients' = SetClientVerified(Head(req[p].events).email, FALSE)
              /\ SendgridRun(p, Tail(req[p].events))
         ELSE /\ SendgridThrow(p)
              /\ UNCHANGED clients

----------------------------------------------------------------------------
(* POST /reset-password *)

(* SELECT * FROM email_tokens WHERE email=$1 AND token=$2 AND expires_at > NOW() *)
ResetTokens(email, token) ==
    {t \in TokenRows : t.email = email /\ t.token = token /\ t.expires_at > now}

(* role === "client" ? "clients" : (consultant || contractor) ? "users" : "team_members" *)
ResetTable(role) ==
    IF role = "client" THEN "clients"
    ELSE IF role \in {"consultant", "contractor"} THEN "users"
    ELSE "team_members"

ResetSelect(p, email, role, token, password, ok) ==
    /\ req[p] = Idle
    /\ UNCHANGED <<db, now, nextSession, freshCount, confirmed, outbox>>
    /\ IF ~ok
         THEN /\ resp' = [resp EXCEPT ![p] = ResetFailed]
              /\ UNCHANGED req
         ELSE IF ResetTokens(email, token) = {}
         THEN /\ resp' = [resp EXCEPT ![p] = InvalidCode]
              /\ UNCHANGED req
         ELSE /\ req' = [req EXCEPT ![p] =
                           [op |-> "reset-password", pc |-> "update", email |-> email,
                            role |-> role, token |-> token, password |-> password]]
              /\ resp' = [resp EXCEPT ![p] = NoResp]

(* UPDATE ${table} SET password_hash=$1 WHERE ${emailField}=$2 *)
ResetUpdate(p, ok) ==
    /\ req[p].op = "reset-password"
    /\ req[p].pc = "update"
    /\ UNCHANGED <<email_tokens, projects, now, nextSession, freshCount, confirmed, outbox>>
    /\ IF ok
         THEN /\ clients' = IF ResetTable(req[p].role) = "clients"
                            THEN {IF c.company_email = req[p].email
                                  THEN [c EXCEPT !.password_hash = req[p].password]
                                  ELSE c : c \in clients}
                            ELSE clients
              /\ users' = IF ResetTable(req[p].role) = "users"
                          THEN [i \in 1..Len(users) |->
                                  IF users[i].email = req[p].email
                                  THEN [users[i] EXCEPT !.password_hash = req[p].password]
                                  ELSE users[i]]
                          ELSE users
              /\ team_members' = IF ResetTable(req[p].role) = "team_members"
                                 THEN {IF t.email = req[p].email
                                       THEN [t EXCEPT !.password_hash = req[p].password]
                                       ELSE t : t \in team_members}
                                 ELSE team_members
              /\ req' = [req EXCEPT ![p].pc = "delete"]
              /\ UNCHANGED resp
         ELSE /\ req' = [req EXCEPT ![p] = Idle]
              /\ resp' = [resp EXCEPT ![p] = ResetFailed]
              /\ UNCHANGED <<clients, users, team_members>>

(* DELETE FROM email_tokens WHERE email=$1 *)
ResetDelete(p, ok) ==
    /\ req[p].op = "reset-password"
    /\ req[p].pc = "delete"
    /\ UNCHANGED <<clients, projects, users, team_members, now, nextSession,
                   freshCount, confirmed, outbox>>
    /\ req' = [req EXCEPT ![p] = Idle]
    /\ IF ok
         THEN /\ email_tokens' = SelectSeq(email_tokens, LAMBDA t : t.email # req[p].email)
              /\ resp' = [resp EXCEPT ![p] = PasswordReset]
         ELSE /\ resp' = [resp EXCEPT ![p] = ResetFailed]
              /\ UNCHANGED email_tokens

----------------------------------------------------------------------------
(* Request bodies and batches used as inputs. *)

FinalizeBody(company_email, password_hash, name, contractor, consultant, team) ==
    [client |-> [company_email |-> company_email, company_name |-> "N1",
                 password_hash |-> password_hash],
     project |-> [name |-> name], contractor |-> contractor, consultant |-> consultant,
     team_members |-> team]

(* Client a@b.c with project P1 and contractor d@e.f. *)
BodyA == FinalizeBody(EmailA, "pw1", "P1", EmailD, NullEmail, <<>>)

(* Session ids a client may submit: every one issued so far, and one not issued. *)
SessionIds == 1..nextSession

----------------------------------------------------------------------------
(* Spec: issuing a code, verifying it and the account rows it touches, one *)
(* request at a time.  /finalize-account creates the client and project    *)
(* rows, a bounce event turns the client unverified again.                 *)

(* Client a@b.c with project P1 and no members. *)
BodyMin == FinalizeBody(EmailA, "pw1", "P1", NullEmail, NullEmail, <<>>)

BounceA == <<[event |-> "bounce", email |-> EmailA]>>

(* A /resend-verification of process 1 that goes on to its insert does so *)
(* with room for a token.                                                  *)
OneAtATime == req'[1].op = "resend-verification" => RoomForToken

Next ==
    \/ Tick
    \/ \E code \in Codes : CreateClient(1, EmailA, code, TRUE, TRUE)
    \/ \E e \in Accounts, s \in SessionIds, code \in Codes, ok \in BOOLEAN :
         VerifyCodeSelect(1, e, s, code, ok)
    \/ \E ok \in BOOLEAN : VerifyCodeUpdateClients(1, ok)
    \/ \E ok \in BOOLEAN : VerifyCodeUpdateTokens(1, ok)
    \/ FinalizeClient(1, BodyMin, TRUE)
    \/ FinalizeProject(1, TRUE)
    \/ SendgridEvents(1, BounceA)
    \/ SendgridUpdate(1, TRUE)

Spec == Init /\ [][Next]_vars

----------------------------------------------------------------------------
(* SpecIssue: every handler that issues a code, with every outcome of the  *)
(* insert and of the mail, one request at a time.                          *)

(* The insert and the mail: both succeed, the mail fails, the insert fails. *)
Outcomes == {<<TRUE, TRUE>>, <<TRUE, FALSE>>, <<FALSE, FALSE>>}

NextIssue ==
    \/ Tick
    \/ \E code \in Codes, o \in Outcomes : CreateClient(1, EmailA, code, o[1], o[2])
    \/ \E e \in Emails \ Accounts : CreateClient(1, e, "123456", TRUE, TRUE)
    \/ (\E ok \in BOOLEAN : ResendSelect(1, EmailA, ok)) /\ OneAtATime
    \/ \E code \in Codes, o \in Outcomes : ResendInsert(1, code, o[1], o[2])
    \/ \E code \in Codes, o \in Outcomes :
         SendVerification(1, EmailA, "client", "pw1", code, o[1], o[2])

SpecIssue == Init /\ [][NextIssue]_vars

----------------------------------------------------------------------------
(* SpecCreate: /create-client on every kind of email and with every        *)
(* outcome, next to the resends that reuse its session ids.                *)

NextCreate ==
    \/ Tick
    \/ \E code \in Codes, o \in Outcomes : CreateClient(1, EmailA, code, o[1], o[2])
    \/ \E e \in Emails \ Accounts : CreateClient(1, e, "123456", TRUE, TRUE)
    \/ ResendSelect(1, EmailA, TRUE) /\ OneAtATime
    \/ \E code \in Codes : ResendInsert(1, code, TRUE, TRUE)

SpecCreate == Init /\ [][NextCreate]_vars

----------------------------------------------------------------------------
(* Claims about /verify-code, checked under Spec.                          *)

ClientRows(e) == {c \in clients : c.company_email = e}

(* The token rows of the triple a request submits, whatever their state. *)
RowsOfTriple(e, s, code) ==
    {t \in TokenRows : t.email = e /\ t.session_id = s /\ t.token = code}

(* A row /verify-code accepts: unexpired and unverified. *)
Active(t) == t.expires_at > now /\ ~t.verified

(* C1: requests handled one after another.  A /verify-code whose triple    *)
(* is that of an unexpired, unverified row is not turned away: it goes on  *)
(* to the commit, having changed nothing yet, and when the commit's        *)
(* statements run it answers {verified:true} and leaves every row of its   *)
(* triple verified.  A verified row stays verified and a row for which     *)
(* {verified:true} was answered is verified, so a later request with the   *)
(* same triple finds no row and is answered {verified:false} by the        *)
(* SELECT, before any update.  {verified:true} is answered at most once    *)
(* per token row, and no step of a /verify-code request changes the number *)
(* of client rows of an email.                                             *)
C1_VerifiedOncePerCode ==
    [][ /\ (req[1] = Idle /\ req'[1] = Idle /\ resp'[1] = VerifiedFalse) =>
             \A t \in TokenRows :
                Active(t) => ~VerifyCodeSelect(1, t.email, t.session_id, t.token, TRUE)
        /\ (req[1] = Idle /\ req'[1].op = "verify-code") =>
             /\ \E t \in RowsOfTriple(req'[1].email, req'[1].sessionId, req'[1].code) :
                   Active(t)
             /\ UNCHANGED <<db, freshCount, confirmed>>
        /\ VerifyCodeUpdateTokens(1, TRUE) =>
             /\ resp'[1] = VerifiedTrue
             /\ \A i \in 1..Len(email_tokens) :
                  (email_tokens[i].email = req[1].email
                     /\ email_tokens[i].session_id = req[1].sessionId
                     /\ email_tokens[i].token = req[1].code)
                  => email_tokens'[i].verified
        /\ \A i \in 1..Len(email_tokens) :
             /\ email_tokens[i].verified => email_tokens'[i].verified
             /\ freshCount'[i] >= 1 => email_tokens'[i].verified
             /\ freshCount'[i] <= 1
        /\ (req[1].op = "verify-code" \/ req'[1].op = "verify-code") =>
             \A e \in Accounts : Cardinality(ClientRows(e)') = Cardinality(ClientRows(e))
      ]_vars

(* A code was verified for a client that had been set unverified, the      *)
(* client is verified again, and a later request, the code still           *)
(* unexpired, was answered {verified:false}.                               *)
C1_Witness ==
    /\ req[1] = Idle
    /\ resp[1] = VerifiedFalse
    /\ \E t \in TokenRows : t.verified /\ freshCount[t.id] = 1 /\ t.expires_at > now
    /\ \E c \in ClientRows(EmailA) : c.verified
    /\ EmailA \in confirmed

(* C3: a /verify-code whose (email, sessionId, code) has no token row, or  *)
(* only rows that have expired (expires_at <= now), answers                *)
(* {verified:false}, ends there, and changes no client, project or user    *)
(* row.  Stated on every step that is the SELECT of a /verify-code         *)
(* request: it ends so, unless a row of the triple read is unexpired.      *)
C3_NoMatchOrExpired ==
    [][ \/ /\ req'[1] = Idle
           /\ resp'[1] = VerifiedFalse
           /\ UNCHANGED <<clients, projects, users>>
        \/ /\ req'[1].op = "verify-code"
           /\ \E t \in RowsOfTriple(req'[1].email, req'[1].sessionId, req'[1].code) :
                 t.expires_at > now
        \/ ~(\E e \in Accounts, s \in SessionIds, code \in Codes, ok \in BOOLEAN :
                VerifyCodeSelect(1, e, s, code, ok))
      ]_vars

(* An unverified code has expired, the client of its email is unverified   *)
(* and has a project, and the last request was answered {verified:false}.  *)
C3_Witness ==
    /\ req[1] = Idle
    /\ resp[1] = VerifiedFalse
    /\ \E t \in TokenRows : t.email = EmailA /\ ~t.verified /\ t.expires_at <= now
    /\ \E c \in ClientRows(EmailA) : ~c.verified
    /\ projects # {}
    /\ confirmed = {}

----------------------------------------------------------------------------
(* SpecConc: two /verify-code requests in flight at once, their statements *)
(* interleaved in any order, every statement succeeding.                   *)

NextConc ==
    \/ Tick
    \/ \E code \in Codes : CreateClient(1, EmailA, code, TRUE, TRUE)
    \/ \E p \in Procs, s \in SessionIds, code \in Codes :
         VerifyCodeSelect(p, EmailA, s, code, TRUE)
    \/ \E p \in Procs : VerifyCodeUpdateClients(p, TRUE)
    \/ \E p \in Procs : VerifyCodeUpdateTokens(p, TRUE)

SpecConc == Init /\ [][NextConc]_vars

(* C2: of two /verify-code requests in flight with the same valid (email,  *)
(* sessionId, code), at most one runs the commit and answers               *)
(* {verified:true}: no token row is ever the matched row of two            *)
(* {verified:true} answers.                                                *)
C2_AtMostOneCommit ==
    \A i \in 1..Len(freshCount) : freshCount[i] <= 1

----------------------------------------------------------------------------
(* SpecCommit: /finalize-account, each of its statements succeeding or     *)
(* throwing, next to the issuing and verifying of a code, one request at a *)
(* time.                                                                   *)

NextCommit ==
    \/ \E code \in Codes : CreateClient(1, EmailA, code, TRUE, TRUE)
    \/ \E s \in SessionIds, code \in Codes : VerifyCodeSelect(1, EmailA, s, code, TRUE)
    \/ VerifyCodeUpdateClients(1, TRUE)
    \/ VerifyCodeUpdateTokens(1, TRUE)
    \/ \E body \in {BodyA, BodyMin}, ok \in BOOLEAN : FinalizeClient(1, body, ok)
    \/ \E ok \in BOOLEAN : FinalizeProject(1, ok)
    \/ \E ok \in BOOLEAN : FinalizeMember(1, ok)

SpecCommit == Init /\ [][NextCommit]_vars

(* The entity graph of a request body is stored: its client, its project   *)
(* under that client, and a users row under that project for each member.  *)
Committed(body) ==
    \E c \in ClientRows(body.client.company_email) :
      \E pr \in projects :
        /\ pr.name = body.project.name
        /\ pr.client_id = c.id
        /\ \A k \in 1..Len(MemberInserts(body)) :
              \E u \in UserRows : /\ u.email = MemberInserts(body)[k].email
                                  /\ u.project_id = pr.id

(* C4: a /finalize-account whose payload is already stored, as a first     *)
(* call with the same payload left it, adds no client, project or users    *)
(* row in any of its statements.                                           *)
C4_SecondCallAddsNoRows ==
    [][ \/ /\ req[1] = Idle
           /\ req'[1].op = "finalize-account"
           /\ Committed(req'[1].body)
        \/ /\ req[1].op = "finalize-account"
           /\ Committed(req[1].body)
        => /\ Cardinality(clients') = Cardinality(clients)
           /\ Cardinality(projects') = Cardinality(projects)
           /\ Len(users') = Len(users)
      ]_vars

(* C5: /finalize-account is all-or-nothing, so once no request is in       *)
(* flight no client is left without its project: a request that failed     *)
(* after its client insert has left no client row behind.                  *)
C5_NoOrphanedClient ==
    req[1] = Idle => \A c \in clients : \E pr \in projects : pr.client_id = c.id

(* C6: a clients row has verified = true only if a /verify-code succeeded  *)
(* for its email earlier.                                                  *)
C6_VerifiedOnlyAfterConfirmation ==
    \A c \in clients : c.verified => c.company_email \in confirmed

----------------------------------------------------------------------------
(* SpecAccount: an account is created, a bounce event for its email        *)
(* arrives, and the account is then used: logins and resends, one request  *)
(* at a time.                                                              *)

NextAccount ==
    \/ Tick
    \/ FinalizeClient(1, BodyMin, TRUE)
    \/ FinalizeProject(1, TRUE)
    \/ SendgridEvents(1, BounceA)
    \/ SendgridUpdate(1, TRUE)
    \/ \E role \in {"client", "contractor", "admin"}, password \in Passwords, ok \in BOOLEAN :
         VerifyLogin(1, role, EmailA, password, ok)
    \/ ResendSelect(1, EmailA, TRUE) /\ OneAtATime
    \/ \E code \in Codes : ResendInsert(1, code, TRUE, TRUE)

SpecAccount == Init /\ [][NextAccount]_vars

(* C7: /verify-login answers {success:true} for a client only if the       *)
(* client's verified flag is true.                                         *)
C7_LoginOnlyVerified ==
    [][ ( /\ req[1] = Idle
          /\ resp'[1] = LoginSuccess
          /\ \E password \in Passwords : VerifyLogin(1, "client", EmailA, password, TRUE) )
        => \E c \in ClientRows(EmailA) : c.verified
      ]_vars

(* C8: when /resend-verification is refused (the latest token row of the   *)
(* email has attempts >= 2), the unverified client row of that email is    *)
(* deleted together with its projects, and verified clients keep their     *)
(* rows.                                                                   *)
C8_RefusalRollsBack ==
    [][ ( /\ req[1] = Idle
          /\ resp'[1] = ResendRefused
          /\ ResendSelect(1, EmailA, TRUE) )
        => LET stale == {c \in ClientRows(EmailA) : ~c.verified}
           IN  /\ clients' \cap stale = {}
               /\ \A pr \in projects' : \A c \in stale : pr.client_id # c.id
               /\ \A c \in clients : c.verified => c \in clients'
      ]_vars

----------------------------------------------------------------------------
(* Claims about the issuing of codes: C9 is checked under SpecIssue, C10   *)
(* under SpecCreate.                                                       *)

(* The most recent token rows of an email: none has a later expires_at. *)
MostRecent(e) ==
    {t \in TokenRows : /\ t.email = e
                       /\ ~\E u \in TokenRows : u.email = e /\ u.expires_at > t.expires_at}

(* attempts as the handler's arithmetic reads it: a NULL counts as 0. *)
Attempts(t) == IF t.attempts = Null THEN 0 ELSE t.attempts

(* The table after the step is the table before it plus one row. *)
OneRowAdded ==
    /\ Len(email_tokens') = Len(email_tokens) + 1
    /\ SubSeq(email_tokens', 1, Len(email_tokens)) = email_tokens

NewRow == email_tokens'[Len(email_tokens')]

(* C9: /resend-verification decides on a most recent token row of the      *)
(* email.  If all the most recent rows have attempts >= 2 it is refused,   *)
(* and a refusal inserts no token and sends no mail.  Otherwise it goes on *)
(* to insert: with no row for the email, attempts 1 under a session id no  *)
(* row has; with a most recent row of attempts < 2, that row's session id  *)
(* and its attempts + 1.  The insert adds exactly one row, unverified,     *)
(* with these values, and the answer carries its session id.               *)
C9_ResendDecision ==
    [][ /\ (req[1] = Idle /\ resp'[1] = ResendRefused) =>
             /\ \E t \in MostRecent(EmailA) : Attempts(t) >= 2
             /\ req'[1] = Idle
             /\ UNCHANGED <<email_tokens, outbox>>
        /\ ResendSelect(1, EmailA, TRUE) =>
             /\ UNCHANGED <<email_tokens, outbox>>
             /\ (MostRecent(EmailA) # {} /\ \A t \in MostRecent(EmailA) : Attempts(t) >= 2)
                  => resp'[1] = ResendRefused
             /\ (req'[1].op = "resend-verification" /\ MostRecent(EmailA) = {})
                  => req'[1].newAttempts = 1 /\ req'[1].sessionId = Null
             /\ (req'[1].op = "resend-verification" /\ MostRecent(EmailA) # {})
                  => \E t \in MostRecent(EmailA) :
                        /\ Attempts(t) < 2
                        /\ req'[1].newAttempts = Attempts(t) + 1
                        /\ req'[1].sessionId = t.session_id
        /\ \A code \in Codes :
             ResendInsert(1, code, TRUE, TRUE) =>
               /\ OneRowAdded
               /\ NewRow.email = req[1].email
               /\ NewRow.token = code
               /\ NewRow.attempts = req[1].newAttempts
               /\ ~NewRow.verified
               /\ IF req[1].sessionId = Null
                  THEN \A t \in TokenRows : t.session_id # NewRow.session_id
                  ELSE NewRow.session_id = req[1].sessionId
               /\ resp'[1] = CodeResent(NewRow.session_id)
               /\ outbox' = outbox \cup {[to |-> req[1].email, code |-> code]}
      ]_vars

(* A session was resent to twice, its rows have attempts 1 and 2, and a    *)
(* third resend was refused.                                               *)
C9_Witness ==
    /\ req[1] = Idle
    /\ resp[1] = ResendRefused
    /\ \E t \in MostRecent(EmailA), u \in TokenRows :
          /\ t.attempts = 2
          /\ u.attempts = 1
          /\ u.session_id = t.session_id
          /\ u.email = EmailA

(* A string with an "@" and a ".". *)
HasAtAndDot(e) ==
    /\ \E i \in 1..Len(e) : e[i] = "@"
    /\ \E i \in 1..Len(e) : e[i] = "."

(* C10: for an email with an "@" and a ".", a /create-client whose insert  *)
(* runs adds exactly one token row, with attempts 0, verified false and    *)
(* expires_at = now + TTL; the row is the only unexpired, unverified row   *)
(* of its session, and when the mail is sent the answer carries that       *)
(* session id.  For any other email the answer is 400 and no token row is  *)
(* created and no mail sent.  (Every step that is a /create-client with    *)
(* inputs e, code and outcome o ends as stated for them.)                  *)
C10_CreateClientToken ==
    [][ (req[1] = Idle /\ req'[1] = Idle) =>
          \A e \in Emails, code \in Codes, o \in Outcomes :
            \/ IF HasAtAndDot(e)
               THEN IF o[1]
                    THEN /\ OneRowAdded
                         /\ NewRow.email = e
                         /\ NewRow.token = code
                         /\ NewRow.attempts = 0
                         /\ NewRow.verified = FALSE
                         /\ NewRow.expires_at = now + TTL
                         /\ {i \in 1..Len(email_tokens') :
                               /\ email_tokens'[i].session_id = NewRow.session_id
                               /\ email_tokens'[i].expires_at > now'
                               /\ ~email_tokens'[i].verified} = {Len(email_tokens')}
                         /\ o[2] => /\ resp'[1].status = 200
                                    /\ resp'[1].sessionId = NewRow.session_id
                                    /\ [to |-> e, code |-> code] \in outbox'
                    ELSE /\ resp'[1].status = 500
                         /\ UNCHANGED <<email_tokens, outbox>>
               ELSE /\ resp'[1].status = 400
                    /\ UNCHANGED <<email_tokens, outbox>>
            \/ ~CreateClient(1, e, code, o[1], o[2])
      ]_vars

(* /create-client answered with the session id of a row it added: the row  *)
(* has attempts 0, is unverified and expires TTL after now.                *)
C10_Witness ==
    /\ resp[1].status = 200
    /\ \E t \in TokenRows :
          /\ t.session_id = resp[1].sessionId
          /\ t.attempts = 0
          /\ ~t.verified
          /\ t.expires_at = now + TTL
          /\ [to |-> t.email, code |-> t.token] \in outbox

----------------------------------------------------------------------------
(* C11: in every state, an (email, session_id) pair has at most one        *)
(* unexpired, unverified token row, so that a code issued before a resend  *)
(* for the session is no longer one /verify-code accepts.                  *)
C11_OneActivePerSession ==
    \A t \in TokenRows, u \in TokenRows :
       ( /\ t.email = u.email
         /\ t.session_id = u.session_id
         /\ Active(t)
         /\ Active(u) ) => t.id = u.id

----------------------------------------------------------------------------
(* SpecLogin: accounts are created (a client, and a contractor without a   *)
(* password), the contractor sets a password through /send-verification    *)
(* and /reset-password, and anyone logs in under any role, one request at  *)
(* a time.                                                                 *)

NextLogin ==
    \/ FinalizeClient(1, BodyA, TRUE)
    \/ FinalizeProject(1, TRUE)
    \/ FinalizeMember(1, TRUE)
    \/ \E role \in {"client", "contractor", "team_member", "admin"}, e \in Accounts,
          password \in Passwords, ok \in BOOLEAN :
         VerifyLogin(1, role, e, password, ok)
    \/ \E code \in Codes :
         SendVerification(1, EmailD, "contractor", "pw1", code, TRUE, TRUE)
    \/ \E token \in Codes, password \in Passwords :
         ResetSelect(1, EmailD, "contractor", token, password, TRUE)
    \/ ResetUpdate(1, TRUE)
    \/ ResetDelete(1, TRUE)

SpecLogin == Init /\ [][NextLogin]_vars

(* The credentials stored for an email in the partition of a role. *)
Credentials(role, e) ==
    IF role = "client" THEN {c.password_hash : c \in ClientRows(e)}
    ELSE IF role \in {"consultant", "contractor"}
         THEN {u.password_hash : u \in {u \in UserRows : u.email = e}}
         ELSE {t.password_hash : t \in {t \in team_members : t.email = e}}

(* C12: /verify-login changes no stored row, and its answer is fixed by    *)
(* the role and the account stored for the email in the role's partition:  *)
(* 400 'Invalid role.' for an unknown role, whatever the datastore does;   *)
(* 'User not found.' when the partition has no row for the email;          *)
(* firstLogin when the row has no credential; {success:true} when the      *)
(* credential equals the submitted password and 'Incorrect password.'      *)
(* when it does not.  (A failing SELECT gives a 500.)                      *)
C12_LoginOutcome ==
    [][ (req[1] = Idle /\ req'[1] = Idle) =>
          \A role \in Roles, e \in Accounts, password \in Passwords, ok \in BOOLEAN :
            \/ /\ UNCHANGED db
               /\ IF role \notin {"client", "consultant", "contractor", "consultant_pm",
                                  "contractor_pm", "team_member"}
                  THEN resp'[1] = InvalidRole /\ resp'[1].status = 400
                  ELSE IF ~ok
                  THEN resp'[1].status = 500
                  ELSE IF Credentials(role, e) = {}
                  THEN resp'[1] = UserNotFound
                  ELSE \E h \in Credentials(role, e) :
                         resp'[1] = IF h = NoPassword THEN FirstLogin
                                    ELSE IF h = password THEN LoginSuccess
                                    ELSE IncorrectPassword
            \/ ~VerifyLogin(1, role, e, password, ok)
      ]_vars

(* A contractor without a credential was answered firstLogin, next to a    *)
(* client that has one.                                                    *)
C12_Witness ==
    /\ req[1] = Idle
    /\ resp[1] = FirstLogin
    /\ \E u \in UserRows : u.email = EmailD /\ u.password_hash = NoPassword
    /\ \E c \in ClientRows(EmailA) : c.password_hash = "pw1"

(* C13: no persisted column holds a password as a request submitted it    *)
(* (Passwords are the cleartext passwords of the requests): not the        *)
(* pending_password /send-verification stores, not the password_hash       *)
(* /reset-password writes to a users row.                                  *)
C13_NoCleartextPassword ==
    /\ \A t \in TokenRows : t.pending_password \notin Passwords
    /\ \A u \in UserRows : u.password_hash \notin Passwords

----------------------------------------------------------------------------
(* SpecReset: a client account exists or not, codes are issued for its     *)
(* email by /create-client and by /send-verification, and two              *)
(* /reset-password requests may be in flight at once, their statements     *)
(* interleaved in any order, every statement succeeding.                   *)

NextReset ==
    \/ Tick
    \/ FinalizeClient(1, BodyMin, TRUE)
    \/ FinalizeProject(1, TRUE)
    \/ \E code \in Codes : CreateClient(1, EmailA, code, TRUE, TRUE)
    \/ \E code \in Codes : SendVerification(1, EmailA, "client", "pw2", code, TRUE, TRUE)
    \/ \E p \in Procs, token \in Codes, password \in Passwords :
         ResetSelect(p, EmailA, "client", token, password, TRUE)
    \/ \E p \in Procs : ResetUpdate(p, TRUE)
    \/ \E p \in Procs : ResetDelete(p, TRUE)

SpecReset == Init /\ [][NextReset]_vars

(* C14: reset codes are single-use.  The DELETE of a /reset-password       *)
(* leaves no token row of the email, and a request whose (email, token)    *)
(* another request has already used for its UPDATE changes no credential,  *)
(* also when the two are in flight together.                               *)
C14_ResetSingleUse ==
    [][ \A p \in Procs :
          /\ (req[p].op = "reset-password" /\ req[p].pc = "delete"
                /\ req'[p] = Idle /\ resp'[p] = PasswordReset)
             => \A i \in 1..Len(email_tokens') : email_tokens'[i].email # req[p].email
          /\ \A q \in Procs \ {p} :
               ( /\ req[p].op = "reset-password" /\ req[p].pc = "update"
                 /\ req'[p].op = "reset-password" /\ req'[p].pc = "delete"
                 /\ req[q].op = "reset-password" /\ req[q].pc = "delete"
                 /\ req[q].email = req[p].email
                 /\ req[q].token = req[p].token )
               => UNCHANGED <<clients, users, team_members>>
      ]_vars

(* C15: /reset-password goes on to set a password only on a code that     *)
(* /send-verification issued for the email: an unexpired token row with    *)
(* the submitted code that carries a pending password, which the rows of   *)
(* /create-client and /resend-verification never do.                       *)
C15_OnlyResetCodes ==
    [][ \A p \in Procs :
          (req[p] = Idle /\ req'[p].op = "reset-password")
          => \E t \in TokenRows : /\ t.email = req'[p].email
                                  /\ t.token = req'[p].token
                                  /\ t.expires_at > now
                                  /\ t.pending_password # NoPassword
      ]_vars

----------------------------------------------------------------------------
(* SpecEvents: a client a@b.c with a contractor d@e.f is created, codes    *)
(* for a@b.c are issued and verified, and delivery-event batches arrive,   *)
(* their updates succeeding or throwing; one request at a time.            *)

Event(type, email) == [event |-> type, email |-> email]

Batches ==
    { <<>>,
      <<Event("delivered", EmailA)>>,
      <<Event("bounce", EmailD)>>,
      <<Event("bounce", EmailA), Event("dropped", EmailD)>>,
      <<NullEvent, Event("blocked", EmailA)>> }

NextEvents ==
    \/ FinalizeClient(1, BodyA, TRUE)
    \/ FinalizeProject(1, TRUE)
    \/ FinalizeMember(1, TRUE)
    \/ \E code \in Codes : CreateClient(1, EmailA, code, TRUE, TRUE)
    \/ \E s \in SessionIds, code \in Codes : VerifyCodeSelect(1, EmailA, s, code, TRUE)
    \/ VerifyCodeUpdateClients(1, TRUE)
    \/ VerifyCodeUpdateTokens(1, TRUE)
    \/ \E events \in Batches : SendgridEvents(1, events)
    \/ \E ok \in BOOLEAN : SendgridUpdate(1, ok)

SpecEvents == Init /\ [][NextEvents]_vars

(* C16: the update for a bounce, dropped or blocked event leaves the       *)
(* client of the event's email unverified and also writes the users and    *)
(* team_members rows of that email (which no other statement ever marks    *)
(* unverified); the receipt of a batch, and so every other event, changes  *)
(* no row.                                                                 *)
C16_AllPartitions ==
    [][ /\ SendgridUpdate(1, TRUE) =>
             LET e == Head(req[1].events).email
             IN  /\ \A c \in clients' : c.company_email = e => ~c.verified
                 /\ (\E u \in UserRows : u.email = e) => users' # users
                 /\ (\E t \in team_members : t.email = e) => team_members' # team_members
        /\ (req[1] = Idle /\ \E events \in Batches : SendgridEvents(1, events))
             => UNCHANGED db
      ]_vars

(* C17: when the handling of a batch ends, every bounce, dropped or        *)
(* blocked event of the batch has been applied: the client of its email,   *)
(* if there is one, is unverified, whatever entry before it was malformed  *)
(* or failed to update.                                                    *)
C17_EventsIndependent ==
    [][ /\ (req[1].op = "sendgrid-events" /\ req'[1] = Idle) =>
             \A k \in 2..Len(req[1].events) :
                IsHardFailure(req[1].events[k]) =>
                  \A c \in clients' : c.company_email = req[1].events[k].email => ~c.verified
        /\ (req[1] = Idle /\ req'[1] = Idle) =>
             \A events \in Batches :
                SendgridEvents(1, events) =>
                  \A k \in 1..Len(events) :
                     IsHardFailure(events[k]) =>
                       \A c \in clients' : c.company_email = events[k].email => ~c.verified
      ]_vars

(* C18: a /sendgrid-events request that ends has been answered 200 OK,     *)
(* whatever its batch held and whatever its updates did.                   *)
C18_AlwaysAcknowledged ==
    [][ ( \/ req[1].op = "sendgrid-events" /\ req'[1] = Idle
          \/ req[1] = Idle /\ req'[1] = Idle
               /\ \E events \in Batches : SendgridEvents(1, events) )
        => resp'[1] = EventsOk
      ]_vars

----------------------------------------------------------------------------
(* C19 (checked under Spec, on /verify-code): a statement that throws is   *)
(* answered with a 5xx, and a code that matches no row with a non-5xx      *)
(* {verified:false}, so that the two outcomes are told apart.              *)
C19_FaultsAre5xx ==
    [][ /\ \A e \in Accounts, s \in SessionIds, code \in Codes :
             /\ VerifyCodeSelect(1, e, s, code, FALSE) => resp'[1].status >= 500
             /\ (VerifyCodeSelect(1, e, s, code, TRUE) /\ req'[1] = Idle)
                  => resp'[1] = VerifiedFalse /\ resp'[1].status < 500
        /\ VerifyCodeUpdateClients(1, FALSE) => resp'[1].status >= 500
        /\ VerifyCodeUpdateTokens(1, FALSE) => resp'[1].status >= 500
      ]_vars

----------------------------------------------------------------------------
(* SpecUpsert: /finalize-account submitted for one client email with one   *)
(* credential or another, next to the issuing and verifying of a code,     *)
(* which leaves an unverified clients row behind.                          *)

(* Client a@b.c again, with another credential. *)
BodyA2 == FinalizeBody(EmailA, "pw2", "P1", EmailD, NullEmail, <<>>)

NextUpsert ==
    \/ \E code \in Codes : CreateClient(1, EmailA, code, TRUE, TRUE)
    \/ \E s \in SessionIds, code \in Codes : VerifyCodeSelect(1, EmailA, s, code, TRUE)
    \/ VerifyCodeUpdateClients(1, TRUE)
    \/ VerifyCodeUpdateTokens(1, TRUE)
    \/ \E body \in {BodyA, BodyA2}, ok \in BOOLEAN : FinalizeClient(1, body, ok)
    \/ FinalizeProject(1, TRUE)
    \/ FinalizeMember(1, TRUE)

SpecUpsert == Init /\ [][NextUpsert]_vars

(* C20: the client statement of /finalize-account, run for an email that   *)
(* already has a clients row, is not rejected, leaves that row with the    *)
(* submitted company name and credential and with verified = true, and     *)
(* adds no clients row.                                                    *)
C20_UpsertUpdatesFields ==
    [][ \/ req[1] # Idle
        \/ ~ \E c \in clients : c.company_email = EmailA
        \/ \A body \in {BodyA, BodyA2} :
             \/ /\ req'[1] # Idle
                /\ Cardinality(clients') = Cardinality(clients)
                /\ \A c \in clients' :
                     c.company_email = body.client.company_email
                       => /\ c.company_name = body.client.company_name
                          /\ c.password_hash = body.client.password_hash
                          /\ c.verified = TRUE
             \/ ~FinalizeClient(1, body, TRUE)
      ]_vars

----------------------------------------------------------------------------
(* SpecMembers: /finalize-account for bodies whose contractor and team     *)
(* members have an email or none, each insert succeeding or throwing.      *)

(* One team member with no email, and no contractor or consultant. *)
BodyTeamNoEmail == FinalizeBody(EmailA, "pw1", "P1", NullEmail, NullEmail, <<NullEmail>>)

(* Team member d@e.f next to contractor d@e.f, under project P2. *)
BodyTeam == FinalizeBody(EmailA, "pw1", "P2", EmailD, NullEmail, <<EmailD>>)

(* A contractor object with an empty email next to team member a@b.c. *)
BodyNoContractor == FinalizeBody(EmailD, "pw2", "P1", <<>>, NullEmail, <<EmailA>>)

MemberBodies == {BodyA, BodyTeamNoEmail, BodyTeam, BodyNoContractor}

NextMembers ==
    \/ \E body \in MemberBodies : FinalizeClient(1, body, TRUE)
    \/ \E ok \in BOOLEAN : FinalizeProject(1, ok)
    \/ \E ok \in BOOLEAN : FinalizeMember(1, ok)

SpecMembers == Init /\ [][NextMembers]_vars

(* users rows of one (email, project_id). *)
MemberRows(table, email, project_id) ==
    {i \in 1..Len(table) : table[i].email = email /\ table[i].project_id = project_id}

(* C21: a member insert of /finalize-account that the datastore accepts    *)
(* adds no users row for a member with no email, and leaves exactly one    *)
(* users row of (email, project) for a member with an email.               *)
C21_MembersWithoutEmailSkipped ==
    [][ \/ req[1].op # "finalize-account"
        \/ req[1].pc # "members"
        \/ resp'[1] = FinalizeFailed
        \/ LET m == Head(req[1].todo)
           IN  IF HasEmail(m.email)
               THEN Cardinality(MemberRows(users', m.email, req[1].project_id)) = 1
               ELSE users' = users
      ]_vars

----------------------------------------------------------------------------
(* C22 (checked under Spec): a /verify-code whose triple is that of an     *)
(* unexpired row for which {verified:true} has been answered is not        *)
(* answered {verified:false} by its SELECT, the datastore answering, and   *)
(* leaves the number of client rows as it was.                             *)
C22_VerifyAgainIdempotent ==
    [][ \/ req[1] # Idle
        \/ \A t \in TokenRows :
             \/ freshCount[t.id] = 0
             \/ t.expires_at <= now
             \/ /\ resp'[1] # VerifiedFalse
                /\ Cardinality(clients') = Cardinality(clients)
             \/ ~VerifyCodeSelect(1, t.email, t.session_id, t.token, TRUE)
      ]_vars

----------------------------------------------------------------------------
(* SpecGuess: codes issued and resent for a@b.c, and /verify-code requests *)
(* that submit, for a session that has a token row, any code, right or     *)
(* wrong; every statement succeeds.                                        *)

NextGuess ==
    \/ Tick
    \/ \E code \in Codes : CreateClient(1, EmailA, code, TRUE, TRUE)
    \/ ResendSelect(1, EmailA, TRUE) /\ OneAtATime
    \/ \E code \in Codes : ResendInsert(1, code, TRUE, TRUE)
    \/ \E t \in TokenRows, code \in Codes :
         VerifyCodeSelect(1, t.email, t.session_id, code, TRUE)
    \/ VerifyCodeUpdateClients(1, TRUE)
    \/ VerifyCodeUpdateTokens(1, TRUE)

SpecGuess == Init /\ [][NextGuess]_vars

(* C23: a /verify-code that is answered {verified:false} changes no row,   *)
(* token rows included (no attempts counted, no token invalidated); and a  *)
(* /verify-code that submits the triple of an unexpired, unverified row,   *)
(* whatever its attempts and whatever was guessed before, goes on to the   *)
(* commit and is answered {verified:true}.                                 *)
C23_GuessesNotCounted ==
    [][ /\ (req[1] = Idle /\ req'[1] = Idle /\ resp'[1] = VerifiedFalse)
             => UNCHANGED <<db, freshCount, confirmed>>
        /\ \/ req[1] # Idle
           \/ \A t \in TokenRows :
                \/ ~Active(t)
                \/ /\ req'[1].op = "verify-code"
                   /\ email_tokens' = email_tokens
                \/ ~VerifyCodeSelect(1, t.email, t.session_id, t.token, TRUE)
        /\ \/ req[1].op # "verify-code"
           \/ resp'[1] = VerifiedTrue
           \/ req'[1].op = "verify-code"
      ]_vars

(* A code was issued and resent under one session, the last request was a  *)
(* guess for that session answered {verified:false}, and the resent code   *)
(* is still unexpired and unverified.                                      *)
C23_Witness ==
    /\ req[1] = Idle
    /\ resp[1] = VerifiedFalse
    /\ Len(email_tokens) = 2
    /\ \A t \in TokenRows : t.session_id = 1 /\ ~t.verified
    /\ \E t \in TokenRows : t.attempts = 1 /\ Active(t)

----------------------------------------------------------------------------
(* SpecResend: /resend-verification requests for a@b.c from two clients at *)
(* once, the SELECT of one and the INSERT of the other in any order, after *)
(* a /create-client.  No two rows are inserted at the same instant, so the *)
(* SELECT's ORDER BY expires_at DESC has one first row.                    *)

NoTie == \A t \in TokenRows : t.expires_at < ExpiresAt

NextResend ==
    \/ Tick
    \/ CreateClient(1, EmailA, "123456", TRUE, TRUE) /\ NoTie
    \/ \E p \in Procs : ResendSelect(p, EmailA, TRUE)
    \/ \E p \in Procs, code \in Codes : ResendInsert(p, code, TRUE, TRUE) /\ NoTie

SpecResend == Init /\ [][NextResend]_vars

(* C24: no session id has more than three token rows, and no token row has *)
(* attempts above 2.                                                       *)
C24_ThreeRowsPerSession ==
    /\ \A t \in TokenRows :
          Cardinality({u \in TokenRows : u.session_id = t.session_id}) <= 3
    /\ \A t \in TokenRows : Attempts(t) <= 2

----------------------------------------------------------------------------
(* C25 (checked under SpecGuess): a /verify-code that answers              *)
(* {verified:true} does so for an (email, sessionId) for none of whose     *)
(* token rows {verified:true} was answered before.                         *)
C25_EpisodeClosed ==
    [][ \/ req[1].op # "verify-code"
        \/ resp'[1] # VerifiedTrue
        \/ \A t \in TokenRows :
             (t.email = req[1].email /\ t.session_id = req[1].sessionId)
                => freshCount[t.id] = 0
      ]_vars

----------------------------------------------------------------------------
(* SpecRoles: /finalize-account commits members, /verify-login is called   *)
(* for each member role, and a member sets a password through              *)
(* /send-verification and /reset-password; every statement succeeds.       *)

(* Client a@b.c, project P1, and d@e.f as its one team member. *)
BodyTeamOnly == FinalizeBody(EmailA, "pw1", "P1", NullEmail, NullEmail, <<EmailD>>)

MemberRoles == {"contractor", "consultant", "team_member"}

NextRoles ==
    \/ \E body \in {BodyA, BodyTeamOnly, BodyNoContractor} : FinalizeClient(1, body, TRUE)
    \/ FinalizeProject(1, TRUE)
    \/ FinalizeMember(1, TRUE)
    \/ \E role \in MemberRoles, e \in Accounts, password \in Passwords :
         VerifyLogin(1, role, e, password, TRUE)
    \/ SendVerification(1, EmailD, "team_member", "pw2", "123456", TRUE, TRUE)
    \/ \E role \in {"contractor", "team_member"} :
         ResetSelect(1, EmailD, role, "123456", "pw2", TRUE)
    \/ ResetUpdate(1, TRUE)
    \/ ResetDelete(1, TRUE)

SpecRoles == Init /\ [][NextRoles]_vars

(* The role a member logs in under, from the role /finalize-account stores. *)
LoginRole(role) ==
    CASE role = "Contractor" -> "contractor"
      [] role = "Consultant" -> "consultant"
      [] role = "Team Member" -> "team_member"

(* C26: a /verify-login for the email of a member /finalize-account has    *)
(* committed, under that member's role, is not answered 'User not found.'. *)
C26_MembersCanLogin ==
    [][ \/ req[1] # Idle
        \/ req'[1] # Idle
        \/ resp'[1] # UserNotFound
        \/ \A u \in UserRows, password \in Passwords :
              ~VerifyLogin(1, LoginRole(u.role), u.email, password, TRUE)
      ]_vars

----------------------------------------------------------------------------
(* POST /send-verification as src/server.js has it: the INSERT of a token  *)
(* that lasts an hour, the mail with the link, and then an UPDATE that     *)
(* writes the submitted password to the account row of the role's table.   *)

(* interval '1 hour', in the minutes of TTL *)
Hour == 60

EmailSent == Resp(200, "Verification email sent.", Null)

(* INSERT INTO email_tokens (email, token, expires_at): the other columns  *)
(* are not named; verified takes the column's default.                     *)
ServerSendVerification(p, email, role, password, code, insertOk, mailOk) ==
    /\ req[p] = Idle
    /\ RoomForToken
    /\ UNCHANGED <<clients, projects, users, team_members, now, nextSession, confirmed>>
    /\ IF insertOk
         THEN /\ email_tokens' =
                   Append(email_tokens,
                          [id |-> NextTokenId, email |-> email, token |-> code,
                           expires_at |-> now + Hour, attempts |-> Null,
                           session_id |-> Null, verified |-> FALSE,
                           pending_password |-> NoPassword])
              /\ freshCount' = Append(freshCount, 0)
              /\ outbox' = IF mailOk THEN SendMail(email, code) ELSE outbox
              /\ IF mailOk
                   THEN /\ req' = [req EXCEPT ![p] =
                                     [op |-> "send-verification", pc |-> "update",
                                      email |-> email, role |-> role,
                                      password |-> password]]
                        /\ resp' = [resp EXCEPT ![p] = NoResp]
                   ELSE /\ resp' = [resp EXCEPT ![p] = SendFailed]
                        /\ UNCHANGED req
         ELSE /\ resp' = [resp EXCEPT ![p] = SendFailed]
              /\ UNCHANGED <<email_tokens, freshCount, outbox, req>>

(* UPDATE ${table} SET password_hash=$1 WHERE ${emailField}=$2, the table  *)
(* chosen as /reset-password chooses it.                                   *)
ServerSendVerificationUpdate(p, ok) ==
    /\ req[p].op = "send-verification"
    /\ req[p].pc = "update"
    /\ UNCHANGED <<email_tokens, projects, now, nextSession, freshCount, confirmed, outbox>>
    /\ req' = [req EXCEPT ![p] = Idle]
    /\ IF ok
         THEN /\ clients' = IF ResetTable(req[p].role) = "clients"
                            THEN {IF c.company_email = req[p].email
                                  THEN [c EXCEPT !.password_hash = req[p].password]
                                  ELSE c : c \in clients}
                            ELSE clients
              /\ users' = IF ResetTable(req[p].role) = "users"
                          THEN [i \in 1..Len(users) |->
                                  IF users[i].email = req[p].email
                                  THEN [users[i] EXCEPT !.password_hash = req[p].password]
                                  ELSE users[i]]
                          ELSE users
              /\ team_members' = IF ResetTable(req[p].role) = "team_members"
                                 THEN {IF t.email = req[p].email
                                       THEN [t EXCEPT !.password_hash = req[p].password]
                                       ELSE t : t \in team_members}
                                 ELSE team_members
              /\ resp' = [resp EXCEPT ![p] = EmailSent]
         ELSE /\ resp' = [resp EXCEPT ![p] = SendFailed]
              /\ UNCHANGED <<clients, users, team_members>>

----------------------------------------------------------------------------
(* SpecServer: the accounts /finalize-account has stored, with the         *)
(* /send-verification of src/server.js and /reset-password called for      *)
(* them, each statement succeeding or throwing.                            *)

NextServer ==
    \/ Tick
    \/ FinalizeClient(1, BodyA, TRUE)
    \/ FinalizeProject(1, TRUE)
    \/ FinalizeMember(1, TRUE)
    \/ \E e \in Accounts, password \in Passwords, code \in Codes, o \in Outcomes :
         ServerSendVerification(1, e, IF e = EmailA THEN "client" ELSE "contractor",
                                password, code, o[1], o[2])
    \/ \E ok \in BOOLEAN : ServerSendVerificationUpdate(1, ok)
    \/ \E e \in Accounts, token \in Codes, password \in Passwords :
         ResetSelect(1, e, IF e = EmailA THEN "client" ELSE "contractor",
                     token, password, TRUE)
    \/ ResetUpdate(1, TRUE)
    \/ ResetDelete(1, TRUE)

SpecServer == Init /\ [][NextServer]_vars

(* The step changes the password_hash of an account row that exists. *)
CredentialChanged ==
    \/ \E c \in clients : \E d \in clients' :
          d.id = c.id /\ d.password_hash # c.password_hash
    \/ \E i \in 1..Len(users) : users'[i].password_hash # users[i].password_hash
    \/ \E t \in team_members : t \notin team_members'

(* C27: the password_hash of an existing account changes only in the       *)
(* UPDATE of a /reset-password request, which has read an unexpired token  *)
(* of the email; no step of a /send-verification request changes an        *)
(* account row; and a /reset-password answered 'Invalid or expired code.'  *)
(* changes no account row and no token row.                                *)
C27_CredentialNeedsToken ==
    [][ /\ CredentialChanged
             => /\ req[1].op = "reset-password"
                /\ req[1].pc = "update"
                /\ \E t \in TokenRows : t.email = req[1].email /\ t.token = req[1].token
        /\ req[1].op = "send-verification" => UNCHANGED <<clients, users, team_members>>
        /\ (req[1] = Idle /\ resp'[1] = InvalidCode) => UNCHANGED db
      ]_vars

====
